---- MODULE Spec2Model ----
(***************************************************************************)
(* A state-machine model of the WebSocket IRC server of src/app.py         *)
(* (class IRCServer with its Client and Channel objects).                  *)
(*                                                                         *)
(* Every handler (cmd_XXX) is an operator from a server state record to    *)
(* the server state after the handler has returned; an action applies one  *)
(* handler to the current state for one connection and one input.          *)
(* Python sets and dicts are modelled as sets and functions; the order in  *)
(* which a fan-out loop visits its recipients is fixed by SetToSeq (no     *)
(* property below depends on the relative order of two recipients).        *)
(***************************************************************************)
EXTENDS Integers, Sequences, FiniteSets, TLC

\* ------------------------------------------------------------------------
\* Bounded universe
\* ------------------------------------------------------------------------

\* The connections (Client objects).  A connection id is used once, so a
\* reference that outlives its connection is never mistaken for a new one.
Conn == {"c1", "c2", "c3"}

\* The strings of the universe: the nicks "a", "A" (the same nick in another
\* letter case), "b", "B", "c" and "d", the channel names "#x" and "#y".  The inputs
\* of each command are chosen per specification, in its next-state relation.

\* The connections accepted before c.
Earlier(c) == IF c = "c1" THEN {} ELSE IF c = "c2" THEN {"c1"} ELSE {"c1", "c2"}

\* The value of an absent parameter (params is empty / None).
None == "-"

\* How many commands the server dispatches in one behaviour of Spec.
MaxSteps == 4

\* How many commands the server dispatches in one behaviour of SpecChan.
MaxChanSteps == 4

\* ------------------------------------------------------------------------
\* Pure helpers
\* ------------------------------------------------------------------------

\* str.lower on the strings of the universe.
Lower(str) == IF str = "A" THEN "a" ELSE IF str = "B" THEN "b" ELSE str

valid_nick(nick) == nick \in {"a", "A", "b", "B", "c", "d"}

valid_channel(name) == name \in {"#x", "#y"}

EmptyFn == [x \in {} |-> x]

\* dict.pop(k, None)
Pop(f, k) == [x \in DOMAIN f \ {k} |-> f[x]]

\* dict[k] = v
Put(f, k, v) == [x \in DOMAIN f \cup {k} |-> IF x = k THEN v ELSE f[x]]

\* dict.values() as a set
Values(f) == {f[x] : x \in DOMAIN f}

RECURSIVE SetToSeq(_)
SetToSeq(S) ==
    IF S = {} THEN <<>>
    ELSE LET x == CHOOSE y \in S : TRUE
         IN  <<x>> \o SetToSeq(S \ {x})

\* ------------------------------------------------------------------------
\* State
\* ------------------------------------------------------------------------

VARIABLES
    client,       \* Conn -> the fields of its Client object
    ws,           \* Conn -> "none" | "open" | "closed"  (the transport)
    task,         \* Conn -> "none" | "reading" | "sending" | "done" (IRCServer.handle;
                  \* "sending": suspended in a send of a handler's fan-out loop)
    clients,      \* IRCServer.clients: nick -> Conn
    channels,     \* IRCServer.channels: key -> Channel
    all_clients,  \* IRCServer._all_clients
    sent,         \* the lines the last handler handed to a transport, in order
    last,         \* the command the last step dispatched, for which connection,
                  \* and (for the actions that record them) its parameters
    steps,        \* the steps (commands, or frames of two) the server may still take
    quit_peers,   \* Conn -> the peers of its departure (see Departing)
    quit_seen,    \* Conn -> Conn -> QUIT lines of the first sent to the second
    pending       \* Conn -> the fan-out loop its handler is suspended in (see Idle)

vars == <<client, ws, task, clients, channels, all_clients, sent, last, steps,
          quit_peers, quit_seen, pending>>

\* Client.__init__
NewClient ==
    [nick |-> "*", registered |-> FALSE, nick_set |-> FALSE, user_set |-> FALSE,
     channels |-> {}, modes |-> {}, away_msg |-> None]

\* Channel.__init__
NewChannel(name) ==
    [name |-> name, topic |-> "", members |-> EmptyFn, ops |-> {}, voices |-> {},
     modes |-> {}, key |-> None, limit |-> {}, invites |-> {}, bans |-> <<>>]

\* The server state a handler reads and writes; raised is set when the
\* handler ends with an exception that it does not catch.
St ==
    [client |-> client, ws |-> ws, clients |-> clients, channels |-> channels,
     all_clients |-> all_clients, out |-> <<>>, raised |-> FALSE]

ServerOrigin == [conn |-> "server", nick |-> "server"]

\* Client.mask: the nick it renders and the connection whose user@host it is.
Mask(s, c) == [conn |-> c, nick |-> s.client[c].nick]

\* Client.send: the line reaches the transport unless ws.send raises
\* (the transport is closed), which send swallows.
Send(s, to, origin, cmd, args) ==
    IF s.ws[to] = "open"
    THEN [s EXCEPT !.out = Append(@, [to |-> to, origin |-> origin,
                                       cmd |-> cmd, args |-> args])]
    ELSE s

\* Client.reply
Reply(s, c, code, args) == Send(s, c, ServerOrigin, code, args)

\* A loop "for m in recipients: await m.send(line)".
RECURSIVE SendAll(_, _, _, _, _)
SendAll(s, tos, origin, cmd, args) ==
    IF tos = <<>> THEN s
    ELSE SendAll(Send(s, Head(tos), origin, cmd, args), Tail(tos), origin, cmd, args)

\* ------------------------------------------------------------------------
\* Registration
\* ------------------------------------------------------------------------

\* IRCServer.send_motd
send_motd(s, c) ==
    LET s1 == Reply(s, c, "375", <<>>)
        s2 == Reply(s1, c, "372", <<1>>)
        s3 == Reply(s2, c, "372", <<2>>)
        s4 == Reply(s3, c, "372", <<3>>)
    IN  Reply(s4, c, "376", <<>>)

\* IRCServer.send_lusers
send_lusers(s, c) ==
    LET reg == Cardinality(DOMAIN s.clients)
        unk == Cardinality(s.all_clients) - reg
        ops == Cardinality({n \in DOMAIN s.clients : "o" \in s.client[s.clients[n]].modes})
        s1  == Reply(s, c, "251", <<reg>>)
        s2  == IF ops # 0 THEN Reply(s1, c, "252", <<ops>>) ELSE s1
        s3  == IF unk # 0 THEN Reply(s2, c, "253", <<unk>>) ELSE s2
        s4  == Reply(s3, c, "254", <<Cardinality(DOMAIN s.channels)>>)
    IN  Reply(s4, c, "255", <<reg>>)

\* IRCServer.try_register
try_register(s, c) ==
    IF ~(s.client[c].nick_set /\ s.client[c].user_set) THEN s
    ELSE LET s1 == [s EXCEPT !.client[c].registered = TRUE,
                             !.clients = Put(@, s.client[c].nick, c)]
             s2 == Reply(s1, c, "001", <<>>)
             s3 == Reply(s2, c, "002", <<>>)
             s4 == Reply(s3, c, "003", <<>>)
             s5 == Reply(s4, c, "004", <<>>)
         IN  send_lusers(send_motd(s5, c), c)

\* IRCServer.cmd_USER; enough == (len(params) >= 4)
cmd_USER(s, c, enough) ==
    IF s.client[c].registered THEN Reply(s, c, "462", <<>>)
    ELSE IF ~enough THEN Reply(s, c, "461", <<"USER">>)
    ELSE try_register([s EXCEPT !.client[c].user_set = TRUE], c)

\* IRCServer.cmd_MOTD
cmd_MOTD(s, c) == send_motd(s, c)

\* IRCServer.cmd_LUSERS
cmd_LUSERS(s, c) == send_lusers(s, c)

\* ------------------------------------------------------------------------
\* Channel methods
\* ------------------------------------------------------------------------

\* Channel.add_member
add_member(ch, nick, c) == [ch EXCEPT !.members = Put(@, nick, c)]

\* remove_member without the two discards: the roles of a departed nick stay.
remove_member_keeps_roles(ch, nick) == [ch EXCEPT !.members = Pop(@, nick)]

\* Channel.remove_member
remove_member(ch, nick) ==
    [ch EXCEPT !.members = Pop(@, nick),
               !.ops     = @ \ {nick},
               !.voices  = @ \ {nick}]

\* Channel.rename_member
rename_member(ch, old_nick, new_nick, c) ==
    [ch EXCEPT !.members = IF old_nick \in DOMAIN @
                           THEN Put(Pop(@, old_nick), new_nick, c) ELSE @,
               !.ops     = IF old_nick \in @
                           THEN (@ \ {old_nick}) \cup {new_nick} ELSE @,
               !.voices  = IF old_nick \in @
                           THEN (@ \ {old_nick}) \cup {new_nick} ELSE @]

\* The glob of Channel.is_banned on the masks of the universe: the ban
\* "<n>!*@*" matches the masks whose nick is n in any letter case, and
\* "*!*@*" matches every mask.
BanMatches(ban, nick) ==
    \/ ban = "*!*@*"
    \/ ban = "a!*@*" /\ Lower(nick) = "a"
    \/ ban = "b!*@*" /\ Lower(nick) = "b"
    \/ ban = "c!*@*" /\ Lower(nick) = "c"

\* re.fullmatch raises re.error when the ban, after '*' and '?' are replaced,
\* is no regular expression: "[!*@*" becomes "[!.*@.*", an unterminated
\* character set.
BanRaises(ban) == ban = "[!*@*"

\* The loop of Channel.is_banned over the ban list: "yes" at the first ban
\* that matches, "error" at the first ban that makes re.fullmatch raise,
\* "no" at the end of the list.
RECURSIVE ban_outcome(_, _)
ban_outcome(bans, nick) ==
    IF bans = <<>> THEN "no"
    ELSE IF BanRaises(Head(bans)) THEN "error"
    ELSE IF BanMatches(Head(bans), nick) THEN "yes"
    ELSE ban_outcome(Tail(bans), nick)

\* Channel.is_banned returns True
is_banned(ch, nick) == ban_outcome(ch.bans, nick) = "yes"

\* Channel.is_banned raises re.error
is_banned_raises(ch, nick) == ban_outcome(ch.bans, nick) = "error"

\* "if not ch.members: del self.channels[key]"
DropIfEmpty(s, key) ==
    IF DOMAIN s.channels[key].members = {}
    THEN [s EXCEPT !.channels = Pop(@, key)]
    ELSE s

\* ------------------------------------------------------------------------
\* Departure
\* ------------------------------------------------------------------------

\* IRCServer.broadcast_quit: the loop over list(client.channels); todo are
\* the channel keys not yet visited, notified the clients already sent to.
RECURSIVE broadcast_quit_loop(_, _, _, _, _)
broadcast_quit_loop(s, c, msg, todo, notified) ==
    IF todo = {} THEN s
    ELSE LET k == CHOOSE x \in todo : TRUE
         IN  IF k \notin DOMAIN s.channels
             THEN broadcast_quit_loop(s, c, msg, todo \ {k}, notified)
             ELSE LET tos == (Values(s.channels[k].members) \ {c}) \ notified
                      s1  == SendAll(s, SetToSeq(tos), Mask(s, c), "QUIT", <<msg>>)
                      s2  == [s1 EXCEPT
                                !.channels[k] = remove_member(@, s.client[c].nick),
                                !.client[c].channels = @ \ {k}]
                      s3  == DropIfEmpty(s2, k)
                  IN  broadcast_quit_loop(s3, c, msg, todo \ {k}, notified \cup tos)

broadcast_quit(s, c, msg) ==
    broadcast_quit_loop(s, c, msg, s.client[c].channels, {})

\* IRCServer.cleanup: the loop over list(client.channels) after the pop.
RECURSIVE cleanup_loop(_, _, _)
cleanup_loop(s, c, todo) ==
    IF todo = {} THEN s
    ELSE LET k == CHOOSE x \in todo : TRUE
         IN  IF k \notin DOMAIN s.channels
             THEN cleanup_loop(s, c, todo \ {k})
             ELSE cleanup_loop(
                    DropIfEmpty([s EXCEPT !.channels[k] =
                                    remove_member(@, s.client[c].nick)], k),
                    c, todo \ {k})

\* cleanup without the pop: the nick of a departed client stays registered.
cleanup_pop_skipped(s, c) == s

\* "self.clients.pop(client.nick, None)" of cleanup
cleanup_pop(s, c) == [s EXCEPT !.clients = Pop(@, s.client[c].nick)]

\* IRCServer.cleanup
cleanup(s, c, msg) ==
    LET s1 == IF s.client[c].registered THEN broadcast_quit(s, c, msg) ELSE s
        s2 == cleanup_pop(s1, c)
    IN  cleanup_loop(s2, c, s2.client[c].channels)

\* IRCServer.cmd_QUIT: cleanup, then the transport is closed.
cmd_QUIT(s, c) ==
    [cleanup(s, c, "Quit") EXCEPT !.ws[c] = "closed"]

\* The finally block of IRCServer.handle.
handle_finally(s, c) ==
    [cleanup(s, c, "Connection closed") EXCEPT
        !.all_clients = @ \ {c}, !.ws[c] = "closed"]

\* ------------------------------------------------------------------------
\* NICK
\* ------------------------------------------------------------------------

\* "nick.lower() in {n.lower() for n in self.clients} and nick != client.nick"
nick_in_use(s, c, nick) ==
    /\ Lower(nick) \in {Lower(n) : n \in DOMAIN s.clients}
    /\ nick # s.client[c].nick

\* The loop of cmd_NICK over client.channels: rename in each channel.
RECURSIVE nick_rename_loop(_, _, _, _, _)
nick_rename_loop(s, c, old_nick, nick, todo) ==
    IF todo = {} THEN s
    ELSE LET k == CHOOSE x \in todo : TRUE
         IN  IF k \notin DOMAIN s.channels
             THEN nick_rename_loop(s, c, old_nick, nick, todo \ {k})
             ELSE nick_rename_loop(
                    [s EXCEPT !.channels[k] = rename_member(@, old_nick, nick, c)],
                    c, old_nick, nick, todo \ {k})

\* The set "affected" of cmd_NICK.
nick_affected(s, c) ==
    {c} \cup UNION {Values(s.channels[k].members) :
                        k \in s.client[c].channels \cap DOMAIN s.channels}

\* IRCServer.cmd_NICK; nick = None when params is empty.
cmd_NICK(s, c, nick) ==
    IF nick = None THEN Reply(s, c, "431", <<>>)
    ELSE IF ~valid_nick(nick) THEN Reply(s, c, "432", <<nick>>)
    ELSE IF nick_in_use(s, c, nick) THEN Reply(s, c, "433", <<nick>>)
    ELSE LET old_nick == s.client[c].nick
             old_mask == Mask(s, c)
         IN  IF s.client[c].registered
             THEN LET s1 == [s EXCEPT !.clients = Put(Pop(@, old_nick), nick, c),
                                      !.client[c].nick = nick]
                      s2 == nick_rename_loop(s1, c, old_nick, nick, s1.client[c].channels)
                  IN  SendAll(s2, SetToSeq(nick_affected(s2, c)), old_mask, "NICK", <<nick>>)
             ELSE try_register([s EXCEPT !.client[c].nick = nick,
                                         !.client[c].nick_set = TRUE], c)

\* ------------------------------------------------------------------------
\* JOIN, PART, KICK
\* ------------------------------------------------------------------------

\* The membership part of cmd_JOIN: add_member, client.channels.add and the
\* operator grant to the first member.
join_enter(s, c, key) ==
    LET first == DOMAIN s.channels[key].members = {}
        nick  == s.client[c].nick
    IN  [s EXCEPT !.channels[key] =
                      [add_member(@, nick, c) EXCEPT
                          !.ops = IF first THEN @ \cup {nick} ELSE @],
                  !.client[c].channels = @ \cup {key}]

\* IRCServer.send_names
send_names(s, c, ch) ==
    LET names == {<<IF n \in ch.ops THEN "@" ELSE IF n \in ch.voices THEN "+" ELSE "", n>> :
                     n \in DOMAIN ch.members}
    IN  Reply(Reply(s, c, "353", <<ch.name, names>>), c, "366", <<ch.name>>)

\* IRCServer.cmd_JOIN for one channel name of the list and its key.
cmd_JOIN(s, c, ch_name, key) ==
    IF ~s.client[c].registered THEN s
    ELSE IF ch_name = None THEN Reply(s, c, "461", <<"JOIN">>)
    ELSE IF ~valid_channel(ch_name) THEN Reply(s, c, "403", <<ch_name>>)
    ELSE LET k  == Lower(ch_name)
             s0 == IF k \in DOMAIN s.channels THEN s
                   ELSE [s EXCEPT !.channels = Put(@, k, NewChannel(ch_name))]
             ch == s0.channels[k]
         IN  IF k \in s0.client[c].channels THEN s0
             ELSE IF /\ "l" \in ch.modes
                     /\ \E l \in ch.limit : l # 0 /\ Cardinality(DOMAIN ch.members) >= l
                  THEN Reply(s0, c, "471", <<ch_name>>)
             ELSE IF "k" \in ch.modes /\ ch.key # None /\ key # ch.key
                  THEN Reply(s0, c, "475", <<ch_name>>)
             ELSE IF "i" \in ch.modes /\ s0.client[c].nick \notin ch.invites
                  THEN Reply(s0, c, "473", <<ch_name>>)
             ELSE IF is_banned_raises(ch, s0.client[c].nick)
                  THEN [s0 EXCEPT !.raised = TRUE]
             ELSE IF is_banned(ch, s0.client[c].nick)
                  THEN Reply(s0, c, "474", <<ch_name>>)
             ELSE LET s1 == join_enter(s0, c, k)
                      s2 == SendAll(s1, SetToSeq(Values(s1.channels[k].members)),
                                    Mask(s1, c), "JOIN", <<ch_name>>)
                      s3 == IF s2.channels[k].topic # ""
                            THEN Reply(s2, c, "332", <<ch_name, s2.channels[k].topic>>)
                            ELSE Reply(s2, c, "331", <<ch_name>>)
                  IN  send_names(s3, c, s3.channels[k])

\* IRCServer.cmd_PART for one channel name of the list.
cmd_PART(s, c, ch_name) ==
    IF ch_name = None THEN Reply(s, c, "461", <<"PART">>)
    ELSE LET k == Lower(ch_name)
         IN  IF k \notin DOMAIN s.channels THEN Reply(s, c, "403", <<ch_name>>)
             ELSE IF k \notin s.client[c].channels THEN Reply(s, c, "442", <<ch_name>>)
             ELSE LET s1 == SendAll(s, SetToSeq(Values(s.channels[k].members)),
                                    Mask(s, c), "PART", <<ch_name>>)
                      s2 == [s1 EXCEPT
                                !.channels[k] = remove_member(@, s.client[c].nick),
                                !.client[c].channels = @ \ {k}]
                  IN  DropIfEmpty(s2, k)

\* The removal at the end of cmd_KICK.
kick_remove(s, k, nick, target) ==
    [s EXCEPT !.channels[k] = remove_member(@, nick),
              !.client[target].channels = @ \ {k}]

\* IRCServer.cmd_KICK
cmd_KICK(s, c, ch_name, nick) ==
    IF ch_name = None \/ nick = None THEN Reply(s, c, "461", <<"KICK">>)
    ELSE LET k == Lower(ch_name)
         IN  IF k \notin DOMAIN s.channels THEN Reply(s, c, "403", <<ch_name>>)
             ELSE IF k \notin s.client[c].channels THEN Reply(s, c, "442", <<ch_name>>)
             ELSE IF s.client[c].nick \notin s.channels[k].ops
                  THEN Reply(s, c, "482", <<ch_name>>)
             ELSE IF nick \notin DOMAIN s.clients \/ k \notin s.client[s.clients[nick]].channels
                  THEN Reply(s, c, "441", <<nick, ch_name>>)
             ELSE LET target == s.clients[nick]
                      s1 == SendAll(s, SetToSeq(Values(s.channels[k].members)),
                                    Mask(s, c), "KICK", <<ch_name, nick>>)
                  IN  kick_remove(s1, k, nick, target)

\* ------------------------------------------------------------------------
\* PRIVMSG, NOTICE
\* ------------------------------------------------------------------------

\* target.startswith(("#", "&", "!", "+")) on the targets of the universe.
is_channel_target(target) == target \in {"#x", "#y"}

\* The mode checks of _send_message without the test of mode m.
message_blocked_without_m(s, c, k) ==
    IF "n" \in s.channels[k].modes /\ k \notin s.client[c].channels
    THEN "n"
    ELSE ""

\* The mode checks of _send_message: "n" if mode n stops the message, "m" if
\* mode m does, "" if it may be sent.
message_blocked(s, c, k) ==
    IF "n" \in s.channels[k].modes /\ k \notin s.client[c].channels
    THEN "n"
    ELSE IF /\ "m" \in s.channels[k].modes
            /\ s.client[c].nick \notin s.channels[k].ops
            /\ s.client[c].nick \notin s.channels[k].voices
         THEN "m"
    ELSE ""

\* IRCServer._send_message; target = None when fewer than two parameters
\* came, cmd is "PRIVMSG" or "NOTICE".
send_message(s, c, target, cmd) ==
    IF ~s.client[c].registered THEN s
    ELSE IF target = None THEN Reply(s, c, "461", <<cmd>>)
    ELSE IF is_channel_target(target)
    THEN LET k == Lower(target)
         IN  IF k \notin DOMAIN s.channels THEN Reply(s, c, "403", <<target>>)
             ELSE IF message_blocked(s, c, k) # "" THEN Reply(s, c, "404", <<target>>)
             ELSE SendAll(s, SetToSeq(Values(s.channels[k].members) \ {c}),
                          Mask(s, c), cmd, <<target>>)
    ELSE IF target \notin DOMAIN s.clients THEN Reply(s, c, "401", <<target>>)
    ELSE LET dest == s.clients[target]
             s1   == IF s.client[dest].away_msg # None /\ cmd = "PRIVMSG"
                     THEN Reply(s, c, "301", <<target>>)
                     ELSE s
         IN  Send(s1, dest, Mask(s, c), cmd, <<target>>)

\* IRCServer.cmd_PRIVMSG
cmd_PRIVMSG(s, c, target) == send_message(s, c, target, "PRIVMSG")

\* IRCServer.cmd_NOTICE
cmd_NOTICE(s, c, target) == send_message(s, c, target, "NOTICE")

\* IRCServer.cmd_INVITE; nick = None when fewer than two parameters came.
cmd_INVITE(s, c, nick, ch_name) ==
    IF nick = None \/ ch_name = None THEN Reply(s, c, "461", <<"INVITE">>)
    ELSE LET k  == Lower(ch_name)
             ch == k \in DOMAIN s.channels
         IN  IF ch /\ k \notin s.client[c].channels
             THEN Reply(s, c, "442", <<ch_name>>)
             ELSE IF ch /\ "i" \in s.channels[k].modes
                        /\ s.client[c].nick \notin s.channels[k].ops
                  THEN Reply(s, c, "482", <<ch_name>>)
             ELSE IF nick \notin DOMAIN s.clients THEN Reply(s, c, "401", <<nick>>)
             ELSE LET s1 == IF ch THEN [s EXCEPT !.channels[k].invites = @ \cup {nick}]
                            ELSE s
                      s2 == Reply(s1, c, "341", <<nick, ch_name>>)
                  IN  Send(s2, s.clients[nick], Mask(s, c), "INVITE", <<nick, ch_name>>)

\* IRCServer.cmd_WHOIS; nick = None when params is empty.
cmd_WHOIS(s, c, nick) ==
    IF nick = None THEN Reply(s, c, "461", <<"WHOIS">>)
    ELSE IF nick \notin DOMAIN s.clients THEN Reply(s, c, "401", <<nick>>)
    ELSE LET chans == {k \in DOMAIN s.channels : nick \in DOMAIN s.channels[k].members}
             s1 == Reply(s, c, "311", <<nick, s.clients[nick]>>)
             s2 == Reply(s1, c, "312", <<nick>>)
             s3 == IF chans # {} THEN Reply(s2, c, "319", <<nick, chans>>) ELSE s2
         IN  Reply(s3, c, "318", <<nick>>)

\* IRCServer.cmd_ISON with one nick: the reply lists the nicks that are keys
\* of the nick registry.
cmd_ISON(s, c, nick) ==
    Reply(s, c, "303", <<{n \in {nick} : n \in DOMAIN s.clients}>>)

\* IRCServer.cmd_USERHOST with one nick: the reply holds an entry (the nick
\* and the connection whose user@host it is) for each key of the nick
\* registry.
cmd_USERHOST(s, c, nick) ==
    Reply(s, c, "302", <<{<<n, s.clients[n]>> : n \in {nick} \cap DOMAIN s.clients}>>)

\* ------------------------------------------------------------------------
\* MODE
\* ------------------------------------------------------------------------

\* int() on the limit parameters of the universe; {} is a ValueError.
ParseInt(p) ==
    IF p = "0" THEN {0}
    ELSE IF p = "1" THEN {1}
    ELSE IF p = "2" THEN {2}
    ELSE IF p = "3" THEN {3}
    ELSE IF p = "-1" THEN {-1}
    ELSE {}

\* A role set that only grows: discard is left out.
set_role_add_only(roles, adding, nick) == roles \cup {nick}

\* "if adding: ch.ops.add(nick) else: ch.ops.discard(nick)", and the same
\* for ch.voices.
set_role(roles, adding, nick) ==
    IF adding THEN roles \cup {nick} ELSE roles \ {nick}

\* One "MODE <chan> +o/-o/+v/-v <nick>" line to every member.
mode_broadcast(s, c, k, ch_name, adding, letter, arg) ==
    SendAll(s, SetToSeq(Values(s.channels[k].members)), Mask(s, c), "MODE",
            <<ch_name, IF adding THEN "+" ELSE "-", letter, arg>>)

\* The loop "for c in mode_str" of handle_channel_mode: str are the letters
\* left, mp the parameters left, applied the letters applied so far.
RECURSIVE channel_mode_loop(_, _, _, _, _, _, _, _)
channel_mode_loop(s, c, k, ch_name, str, mp, adding, applied) ==
    IF str = <<>>
    THEN IF \E i \in 1..Len(applied) : applied[i] \notin {"+", "-"}
         THEN SendAll(s, SetToSeq(Values(s.channels[k].members)), Mask(s, c), "MODE",
                      <<ch_name, applied>>)
         ELSE s
    ELSE LET m    == Head(str)
             rest == Tail(str)
         IN  IF m = "+" THEN
                 channel_mode_loop(s, c, k, ch_name, rest, mp, TRUE, Append(applied, "+"))
             ELSE IF m = "-" THEN
                 channel_mode_loop(s, c, k, ch_name, rest, mp, FALSE, Append(applied, "-"))
             ELSE IF m \in {"m", "n", "t", "i", "s", "p"} THEN
                 channel_mode_loop(
                     [s EXCEPT !.channels[k].modes =
                                  IF adding THEN @ \cup {m} ELSE @ \ {m}],
                     c, k, ch_name, rest, mp, adding, Append(applied, m))
             ELSE IF m = "k" THEN
                 IF adding /\ mp # <<>> THEN
                     channel_mode_loop(
                         [s EXCEPT !.channels[k].modes = @ \cup {"k"},
                                   !.channels[k].key = Head(mp)],
                         c, k, ch_name, rest, Tail(mp), adding, Append(applied, "k"))
                 ELSE IF ~adding THEN
                     channel_mode_loop(
                         [s EXCEPT !.channels[k].modes = @ \ {"k"},
                                   !.channels[k].key = None],
                         c, k, ch_name, rest, mp, adding, Append(applied, "k"))
                 ELSE channel_mode_loop(s, c, k, ch_name, rest, mp, adding, applied)
             ELSE IF m = "l" THEN
                 IF adding /\ mp # <<>> THEN
                     IF ParseInt(Head(mp)) # {} THEN
                         channel_mode_loop(
                             [s EXCEPT !.channels[k].limit = ParseInt(Head(mp)),
                                       !.channels[k].modes = @ \cup {"l"}],
                             c, k, ch_name, rest, Tail(mp), adding, Append(applied, "l"))
                     ELSE channel_mode_loop(s, c, k, ch_name, rest, Tail(mp), adding, applied)
                 ELSE IF ~adding THEN
                     channel_mode_loop(
                         [s EXCEPT !.channels[k].modes = @ \ {"l"},
                                   !.channels[k].limit = {}],
                         c, k, ch_name, rest, mp, adding, Append(applied, "l"))
                 ELSE channel_mode_loop(s, c, k, ch_name, rest, mp, adding, applied)
             ELSE IF m = "o" THEN
                 IF mp # <<>> /\ Head(mp) \in DOMAIN s.channels[k].members THEN
                     LET nick == Head(mp)
                         s1 == [s EXCEPT !.channels[k].ops = set_role(@, adding, nick)]
                     IN  channel_mode_loop(
                             mode_broadcast(s1, c, k, ch_name, adding, "o", nick),
                             c, k, ch_name, rest, Tail(mp), adding, Append(applied, "o"))
                 ELSE channel_mode_loop(s, c, k, ch_name, rest,
                                        IF mp # <<>> THEN Tail(mp) ELSE mp, adding, applied)
             ELSE IF m = "v" THEN
                 IF mp # <<>> /\ Head(mp) \in DOMAIN s.channels[k].members THEN
                     LET nick == Head(mp)
                         s1 == [s EXCEPT !.channels[k].voices = set_role(@, adding, nick)]
                     IN  channel_mode_loop(
                             mode_broadcast(s1, c, k, ch_name, adding, "v", nick),
                             c, k, ch_name, rest, Tail(mp), adding, Append(applied, "v"))
                 ELSE channel_mode_loop(s, c, k, ch_name, rest,
                                        IF mp # <<>> THEN Tail(mp) ELSE mp, adding, applied)
             ELSE IF m = "b" THEN
                 IF mp # <<>> THEN
                     LET ban  == Head(mp)
                         bans == s.channels[k].bans
                         s1 == [s EXCEPT !.channels[k].bans =
                                   IF adding
                                   THEN IF \E i \in 1..Len(bans) : bans[i] = ban
                                        THEN bans ELSE Append(bans, ban)
                                   ELSE SelectSeq(bans, LAMBDA b : b # ban)]
                     IN  channel_mode_loop(
                             mode_broadcast(s1, c, k, ch_name, adding, "b", ban),
                             c, k, ch_name, rest, Tail(mp), adding, applied)
                 ELSE LET bans == s.channels[k].bans
                          s1 == SendAll(s, [i \in 1..Len(bans) |-> c], ServerOrigin, "367",
                                        <<ch_name>>)
                      IN  channel_mode_loop(Reply(s1, c, "368", <<ch_name>>),
                                            c, k, ch_name, rest, mp, adding, applied)
             ELSE channel_mode_loop(s, c, k, ch_name, rest, mp, adding, applied)

\* handle_channel_mode without the test of the issuer's rights.
handle_channel_mode_unchecked(s, c, ch_name, mode_str, mp) ==
    LET k == Lower(ch_name)
    IN  IF k \notin DOMAIN s.channels THEN Reply(s, c, "403", <<ch_name>>)
        ELSE IF mode_str = <<>>
             THEN Reply(s, c, "324", <<ch_name, s.channels[k].modes,
                                        s.channels[k].key, s.channels[k].limit>>)
        ELSE channel_mode_loop(s, c, k, ch_name, mode_str, mp, TRUE, <<>>)

\* IRCServer.handle_channel_mode; mode_str = <<>> when mode_params is empty.
handle_channel_mode(s, c, ch_name, mode_str, mp) ==
    LET k == Lower(ch_name)
    IN  IF k \notin DOMAIN s.channels THEN Reply(s, c, "403", <<ch_name>>)
        ELSE IF mode_str = <<>>
             THEN Reply(s, c, "324", <<ch_name, s.channels[k].modes,
                                        s.channels[k].key, s.channels[k].limit>>)
        ELSE IF s.client[c].nick \notin s.channels[k].ops /\ "o" \notin s.client[c].modes
             THEN Reply(s, c, "482", <<ch_name>>)
        ELSE channel_mode_loop(s, c, k, ch_name, mode_str, mp, TRUE, <<>>)

\* The loop "for ch in mode_str" of handle_user_mode on the modes of client
\* t; str are the letters left.
RECURSIVE user_mode_loop(_, _, _, _, _)
user_mode_loop(s, c, t, str, adding) ==
    IF str = <<>> THEN s
    ELSE LET m    == Head(str)
             rest == Tail(str)
         IN  IF m = "+" THEN user_mode_loop(s, c, t, rest, TRUE)
             ELSE IF m = "-" THEN user_mode_loop(s, c, t, rest, FALSE)
             ELSE IF m \in {"i", "o"} THEN
                 user_mode_loop(
                     [s EXCEPT !.client[t].modes =
                                  IF adding THEN @ \cup {m} ELSE @ \ {m}],
                     c, t, rest, adding)
             ELSE user_mode_loop(Reply(s, c, "501", <<>>), c, t, rest, adding)

\* IRCServer.handle_user_mode; mode_str = <<>> when mode_params is empty.
handle_user_mode(s, c, target, mode_str) ==
    IF target # s.client[c].nick /\ "o" \notin s.client[c].modes
    THEN Reply(s, c, "502", <<>>)
    ELSE IF target \notin DOMAIN s.clients THEN Reply(s, c, "401", <<target>>)
    ELSE LET t == s.clients[target]
         IN  IF mode_str = <<>>
             THEN Send(s, c, ServerOrigin, "221", <<s.client[t].modes>>)
             ELSE Send(user_mode_loop(s, c, t, mode_str, TRUE), c, Mask(s, c),
                       "MODE", <<target, mode_str>>)

\* IRCServer.cmd_MODE; target = None when params is empty.
cmd_MODE(s, c, target, mode_str, mp) ==
    IF target = None THEN Reply(s, c, "461", <<"MODE">>)
    ELSE IF is_channel_target(target)
         THEN handle_channel_mode(s, c, target, mode_str, mp)
    ELSE handle_user_mode(s, c, target, mode_str)

\* IRCServer.cmd_OPER
cmd_OPER(s, c) == Reply(s, c, "481", <<>>)

\* ------------------------------------------------------------------------
\* Actions: one per step of a connection's IRCServer.handle task
\* ------------------------------------------------------------------------

\* The clients that share a channel with c: each has joined, and not left,
\* a channel that c has joined and not left.
Sharing(c) ==
    {d \in Conn \ {c} : client[d].channels \cap client[c].channels # {}}

\* The number of c's QUIT lines to r among the lines out.
QuitLines(out, c, r) ==
    Cardinality({i \in 1..Len(out) :
        out[i].cmd = "QUIT" /\ out[i].origin.conn = c /\ out[i].to = r})

NoDeparture == [started |-> FALSE, peers |-> {}]

\* No fan-out loop of the connection's handler is suspended.  Otherwise: k
\* is the key of the channel whose members the loop iterates over, target
\* the parameter of the command, size the length of the members dict when
\* the iterator was made, todo the members the iterator has yet to yield.
Idle == [k |-> None, target |-> None, size |-> 0, todo |-> <<>>]

Init ==
    /\ client = [c \in Conn |-> NewClient]
    /\ ws = [c \in Conn |-> "none"]
    /\ task = [c \in Conn |-> "none"]
    /\ clients = EmptyFn
    /\ channels = EmptyFn
    /\ all_clients = {}
    /\ sent = <<>>
    /\ last = [op |-> "init", c |-> None]
    /\ steps = MaxSteps
    /\ quit_peers = [c \in Conn |-> NoDeparture]
    /\ quit_seen = [c \in Conn |-> [r \in Conn |-> 0]]
    /\ pending = [c \in Conn |-> Idle]

\* Bookkeeping of a departure.  When cleanup first runs for a registered
\* client c whose transport is open (in cmd_QUIT, or in the finally block
\* when there was no QUIT), the clients sharing a channel with c whose
\* transport is open are recorded; every QUIT line sent is counted (up to 2).
Departing(s, op, c) ==
    /\ quit_peers' =
          IF /\ op \in {"QUIT", "disconnect"}
             /\ ~quit_peers[c].started
             /\ client[c].registered
             /\ ws[c] = "open"
          THEN [quit_peers EXCEPT ![c] =
                   [started |-> TRUE,
                    peers |-> {d \in Sharing(c) : ws[d] = "open"}]]
          ELSE quit_peers
    /\ quit_seen' = [o \in Conn |-> [r \in Conn |->
          IF quit_seen[o][r] + QuitLines(s.out, o, r) >= 2 THEN 2
          ELSE quit_seen[o][r] + QuitLines(s.out, o, r)]]

\* The handler has returned: its state and the lines it sent become current;
\* l records the command of this step.
ApplyAs(s, l) ==
    /\ client' = s.client
    /\ ws' = s.ws
    /\ clients' = s.clients
    /\ channels' = s.channels
    /\ all_clients' = s.all_clients
    /\ sent' = s.out
    /\ last' = l
    /\ Departing(s, l.op, l.c)

Apply(s, op, c) == ApplyAs(s, [op |-> op, c |-> c])

\* One line dispatched by IRCServer.handle, recorded as l.  An exception
\* that the handler raises leaves the read loop of IRCServer.handle: the
\* finally block runs and the task ends.
Dispatched(s, l) ==
    /\ ApplyAs(IF s.raised THEN handle_finally(s, l.c) ELSE s, l)
    /\ steps' = steps - 1
    /\ task' = IF s.raised THEN [task EXCEPT ![l.c] = "done"] ELSE task
    /\ UNCHANGED pending

\* One command dispatched by IRCServer.dispatch.
Command(s, op, c) == Dispatched(s, [op |-> op, c |-> c])

\* One command dispatched, its parameters recorded with it.
CommandArg(s, op, c, arg) == Dispatched(s, [op |-> op, c |-> c, arg |-> arg])

\* IRCServer.dispatch can run for c: its task is in the read loop.  After
\* cmd_QUIT has closed the transport the loop over the lines of the current
\* frame still goes on, so a closed transport does not disable it.
CanDispatch(c) == task[c] = "reading" /\ steps > 0

\* The first lines of IRCServer.handle: connections are accepted in the
\* order c1, c2, c3.
Connect(c) ==
    /\ task[c] = "none"
    /\ \A d \in Earlier(c) : task[d] # "none"
    /\ client' = [client EXCEPT ![c] = NewClient]
    /\ ws' = [ws EXCEPT ![c] = "open"]
    /\ task' = [task EXCEPT ![c] = "reading"]
    /\ all_clients' = all_clients \cup {c}
    /\ sent' = <<>>
    /\ last' = [op |-> "connect", c |-> c]
    /\ UNCHANGED <<clients, channels, steps, quit_peers, quit_seen, pending>>

\* The read loop ends (the peer closed, or the server closed after QUIT)
\* and the finally block of IRCServer.handle runs.
Disconnect(c) ==
    /\ task[c] = "reading"
    /\ Apply(handle_finally(St, c), "disconnect", c)
    /\ task' = [task EXCEPT ![c] = "done"]
    /\ UNCHANGED <<steps, pending>>

NICK(c, nicks) ==
    /\ CanDispatch(c)
    /\ \E nick \in nicks : Command(cmd_NICK(St, c, nick), "NICK", c)

USER(c) ==
    /\ CanDispatch(c)
    /\ \E enough \in BOOLEAN : Command(cmd_USER(St, c, enough), "USER", c)

QUIT(c) ==
    /\ CanDispatch(c)
    /\ Command(cmd_QUIT(St, c), "QUIT", c)

JOIN(c, chans) ==
    /\ CanDispatch(c)
    /\ \E ch_name \in chans : Command(cmd_JOIN(St, c, ch_name, None), "JOIN", c)

PART(c, chans) ==
    /\ CanDispatch(c)
    /\ \E ch_name \in chans : Command(cmd_PART(St, c, ch_name), "PART", c)

KICK(c, chans, nicks) ==
    /\ CanDispatch(c)
    /\ \E ch_name \in chans, nick \in nicks :
          Command(cmd_KICK(St, c, ch_name, nick), "KICK", c)

MODE(c, chans, modes, nicks) ==
    /\ CanDispatch(c)
    /\ \E ch_name \in chans, mode_str \in modes, nick \in nicks :
          Command(handle_channel_mode(St, c, ch_name, mode_str, <<nick>>), "MODE", c)

\* NICK <nick>
NICK_ARG(c, nicks) ==
    /\ CanDispatch(c)
    /\ \E nick \in nicks : CommandArg(cmd_NICK(St, c, nick), "NICK", c, <<nick>>)

\* JOIN <chan> [<key>]
JOIN_KEY(c, chans, keys) ==
    /\ CanDispatch(c)
    /\ \E ch_name \in chans, key \in keys :
          CommandArg(cmd_JOIN(St, c, ch_name, key), "JOIN", c, <<ch_name, key>>)

\* INVITE <nick> <chan>
INVITE(c, nicks, chans) ==
    /\ CanDispatch(c)
    /\ \E nick \in nicks, ch_name \in chans :
          CommandArg(cmd_INVITE(St, c, nick, ch_name), "INVITE", c, <<nick, ch_name>>)

\* MODE <chan> <modes> [<param> ...]; cmds are pairs of a mode string and its
\* parameters.
MODE_ARGS(c, chans, cmds) ==
    /\ CanDispatch(c)
    /\ \E ch_name \in chans, m \in cmds :
          CommandArg(handle_channel_mode(St, c, ch_name, m[1], m[2]), "MODE", c,
                     <<ch_name, m[1], m[2]>>)

\* KICK <chan> <nick>
KICK_ARG(c, chans, nicks) ==
    /\ CanDispatch(c)
    /\ \E ch_name \in chans, nick \in nicks :
          CommandArg(cmd_KICK(St, c, ch_name, nick), "KICK", c, <<ch_name, nick>>)

\* One frame "MODE <chan> +o <nick>\nMODE <chan> -o <nick>": the loop over
\* the lines of a frame dispatches the two commands one after the other.
\* The frame counts as one step.
OP_DEOP(c, chans, nicks) ==
    /\ CanDispatch(c)
    /\ \E ch_name \in chans, nick \in nicks :
          LET s1 == handle_channel_mode(St, c, ch_name, <<"+", "o">>, <<nick>>)
              s2 == handle_channel_mode(s1, c, ch_name, <<"-", "o">>, <<nick>>)
          IN  CommandArg(s2, "MODE+o-o", c, <<ch_name, nick>>)

\* One frame "JOIN <chan>\nPART <chan>"; PART is not dispatched if JOIN
\* raised.  The frame counts as one step.
JOIN_PART(c, chans) ==
    /\ CanDispatch(c)
    /\ \E ch_name \in chans :
          LET s1 == cmd_JOIN(St, c, ch_name, None)
              s2 == IF s1.raised THEN s1 ELSE cmd_PART(s1, c, ch_name)
          IN  CommandArg(s2, "JOIN+PART", c, <<ch_name>>)

PRIVMSG(c, targets) ==
    /\ CanDispatch(c)
    /\ \E target \in targets :
          CommandArg(cmd_PRIVMSG(St, c, target), "PRIVMSG", c, <<target>>)

NOTICE(c, targets) ==
    /\ CanDispatch(c)
    /\ \E target \in targets :
          CommandArg(cmd_NOTICE(St, c, target), "NOTICE", c, <<target>>)

WHOIS(c, nicks) ==
    /\ CanDispatch(c)
    /\ \E nick \in nicks : CommandArg(cmd_WHOIS(St, c, nick), "WHOIS", c, <<nick>>)

ISON(c, nicks) ==
    /\ CanDispatch(c)
    /\ \E nick \in nicks : CommandArg(cmd_ISON(St, c, nick), "ISON", c, <<nick>>)

USERHOST(c, nicks) ==
    /\ CanDispatch(c)
    /\ \E nick \in nicks : CommandArg(cmd_USERHOST(St, c, nick), "USERHOST", c, <<nick>>)

\* MODE <target> [<modes> [<param> ...]] for a nick or a channel; cmds as in
\* MODE_ARGS.
MODE_ANY(c, targets, cmds) ==
    /\ CanDispatch(c)
    /\ \E target \in targets, m \in cmds :
          CommandArg(cmd_MODE(St, c, target, m[1], m[2]), "MODE", c,
                     <<target, m[1], m[2]>>)

OPER(c) ==
    /\ CanDispatch(c)
    /\ Command(cmd_OPER(St, c), "OPER", c)

MOTD(c) ==
    /\ CanDispatch(c)
    /\ Command(cmd_MOTD(St, c), "MOTD", c)

LUSERS(c) ==
    /\ CanDispatch(c)
    /\ Command(cmd_LUSERS(St, c), "LUSERS", c)

\* _send_message reaches its fan-out loop over ch.members.values().
fanout_reached(s, c, target) ==
    /\ s.client[c].registered
    /\ target # None
    /\ is_channel_target(target)
    /\ Lower(target) \in DOMAIN s.channels
    /\ message_blocked(s, c, Lower(target)) = ""

\* A PRIVMSG to a channel whose first "await member.send(...)" suspends: the
\* line is in the recipient's transport, the handler has not returned, and
\* the event loop may run the task of another connection.  (A handler none
\* of whose sends suspends is the action PRIVMSG.)
PRIVMSG_SEND(c, targets) ==
    /\ CanDispatch(c)
    /\ \E target \in targets :
          /\ fanout_reached(St, c, target)
          /\ LET k    == Lower(target)
                 todo == SetToSeq(Values(channels[k].members) \ {c})
             IN  /\ todo # <<>>
                 /\ ApplyAs(Send(St, Head(todo), Mask(St, c), "PRIVMSG", <<target>>),
                            [op |-> "PRIVMSG", c |-> c, arg |-> <<target>>])
                 /\ pending' = [pending EXCEPT ![c] =
                        [k |-> k, target |-> target,
                         size |-> Cardinality(DOMAIN channels[k].members),
                         todo |-> Tail(todo)]]
    /\ steps' = steps - 1
    /\ task' = [task EXCEPT ![c] = "sending"]

\* The suspended send of c's handler completes and the loop asks the dict
\* iterator for the next member.  The iterator raises RuntimeError if the
\* dict has changed size since the iterator was made (a channel deleted
\* from the registry has no members); the exception leaves dispatch and the
\* read loop, and the finally block of IRCServer.handle runs.  Otherwise the
\* next member is sent the line and the handler is suspended again, or the
\* loop is over and the handler returns.
RESUME(c) ==
    /\ task[c] = "sending"
    /\ LET p    == pending[c]
           size == IF p.k \in DOMAIN channels
                   THEN Cardinality(DOMAIN channels[p.k].members) ELSE 0
           l    == [op |-> "resume", c |-> c]
       IN  IF size # p.size
           THEN /\ ApplyAs(handle_finally(St, c), l)
                /\ task' = [task EXCEPT ![c] = "done"]
                /\ pending' = [pending EXCEPT ![c] = Idle]
           ELSE IF p.todo = <<>>
           THEN /\ ApplyAs(St, l)
                /\ task' = [task EXCEPT ![c] = "reading"]
                /\ pending' = [pending EXCEPT ![c] = Idle]
           ELSE /\ ApplyAs(Send(St, Head(p.todo), Mask(St, c), "PRIVMSG", <<p.target>>), l)
                /\ task' = task
                /\ pending' = [pending EXCEPT ![c].todo = Tail(@)]
    /\ UNCHANGED steps

\* ------------------------------------------------------------------------
\* Spec: the whole life of three connections, from accept to teardown
\* ------------------------------------------------------------------------

Next ==
    \E c \in Conn :
        \/ Connect(c)
        \/ Disconnect(c)
        \/ NICK(c, {"a", "A", "b"})
        \/ USER(c)
        \/ QUIT(c)
        \/ JOIN(c, {"#x"})
        \/ PART(c, {"#x"})
        \/ KICK(c, {"#x"}, {"a"})
        \/ MODE(c, {"#x"}, {<<"+", "o">>, <<"-", "o">>}, {"b"})

Spec == Init /\ [][Next]_vars

\* ------------------------------------------------------------------------
\* SpecChan: three registered clients a, b and c, all in channel #x, which a
\* created (the state Spec reaches by NICK and USER from each connection and
\* then JOIN #x from c1, c2 and c3 in that order)
\* ------------------------------------------------------------------------

InitNick == [c \in Conn |-> IF c = "c1" THEN "a" ELSE IF c = "c2" THEN "b" ELSE "c"]

InitChan ==
    /\ client = [c \in Conn |->
                    [NewClient EXCEPT !.nick = InitNick[c], !.registered = TRUE,
                                      !.nick_set = TRUE, !.user_set = TRUE,
                                      !.channels = {"#x"}]]
    /\ ws = [c \in Conn |-> "open"]
    /\ task = [c \in Conn |-> "reading"]
    /\ clients = [n \in {"a", "b", "c"} |->
                    IF n = "a" THEN "c1" ELSE IF n = "b" THEN "c2" ELSE "c3"]
    /\ channels = [k \in {"#x"} |->
                    [NewChannel("#x") EXCEPT
                        !.members = [n \in {"a", "b", "c"} |-> clients[n]],
                        !.ops = {"a"}]]
    /\ all_clients = Conn
    /\ sent = <<>>
    /\ last = [op |-> "init", c |-> None]
    /\ steps = MaxChanSteps
    /\ quit_peers = [c \in Conn |-> NoDeparture]
    /\ quit_seen = [c \in Conn |-> [r \in Conn |-> 0]]
    /\ pending = [c \in Conn |-> Idle]

NextChan ==
    \E c \in Conn :
        \/ Disconnect(c)
        \/ NICK(c, {"a", "d"})
        \/ QUIT(c)
        \/ JOIN(c, {"#x", "#y"})
        \/ PART(c, {"#x"})
        \/ KICK(c, {"#x"}, {"a", "b"})
        \/ MODE(c, {"#x"}, {<<"+", "o">>, <<"-", "o">>, <<"+", "v">>}, {"b"})

SpecChan == InitChan /\ [][NextChan]_vars

\* ------------------------------------------------------------------------
\* SpecReg: registration, with the commands that share its numerics
\* ------------------------------------------------------------------------

NextReg ==
    \E c \in Conn :
        \/ Connect(c)
        \/ Disconnect(c)
        \/ NICK(c, {"a", "b"})
        \/ USER(c)
        \/ MOTD(c)
        \/ LUSERS(c)

SpecReg == Init /\ [][NextReg]_vars

\* ------------------------------------------------------------------------
\* SpecGate: a, b and c in #x as in SpecChan; the operator sets the modes
\* that gate JOIN, and clients leave and come back
\* ------------------------------------------------------------------------

\* The mode commands of SpecGate.
GateModes ==
    {<< <<"+", "l", "k", "i">>, <<"1", "s">> >>,
     << <<"+", "l">>, <<"2">> >>,
     << <<"+", "k">>, <<"s">> >>,
     << <<"+", "i">>, <<>> >>,
     << <<"+", "b">>, <<"b!*@*">> >>,
     << <<"+", "b">>, <<"[!*@*">> >>}

NextGate ==
    \E c \in Conn :
        \/ Disconnect(c)
        \/ JOIN_KEY(c, {"#x"}, {None, "s"})
        \/ PART(c, {"#x"})
        \/ INVITE(c, {"b"}, {"#x"})
        \/ MODE_ARGS(c, {"#x"}, GateModes)

SpecGate == InitChan /\ [][NextGate]_vars

\* ------------------------------------------------------------------------
\* SpecMsg: a, b and c in #x as in SpecChan; PRIVMSG to the channel #x and
\* to the nick b, NOTICE to #x, to the channel #y that does not exist, to the
\* unknown nick z and without parameters, while the operator sets n and m
\* and clients leave, quit and change nick
\* ------------------------------------------------------------------------

\* The mode commands of SpecMsg.
MsgModes ==
    {<< <<"+", "n">>, <<>> >>,
     << <<"+", "m">>, <<>> >>,
     << <<"+", "v">>, <<"b">> >>}

NextMsg ==
    \E c \in Conn :
        \/ Disconnect(c)
        \/ QUIT(c)
        \/ NICK(c, {"a"})
        \/ JOIN(c, {"#x"})
        \/ PART(c, {"#x"})
        \/ MODE_ARGS(c, {"#x"}, MsgModes)
        \/ PRIVMSG(c, {"#x", "b"})
        \/ NOTICE(c, {"#x", "#y", "z", None})

SpecMsg == InitChan /\ [][NextMsg]_vars

\* ------------------------------------------------------------------------
\* SpecKick: a, b and c in #x as in SpecChan; KICK from the operator and
\* from the others, of members and of clients no longer in the channel,
\* while clients quit, change nick and join again
\* ------------------------------------------------------------------------

NextKick ==
    \E c \in Conn :
        \/ Disconnect(c)
        \/ QUIT(c)
        \/ NICK(c, {"b"})
        \/ JOIN(c, {"#x"})
        \/ KICK_ARG(c, {"#x", "#y"}, {"b", "c"})

SpecKick == InitChan /\ [][NextKick]_vars

\* ------------------------------------------------------------------------
\* SpecPair: a, b and c in #x as in SpecChan; frames of two commands
\* (MODE +o then -o, JOIN then PART) among single commands
\* ------------------------------------------------------------------------

NextPair ==
    \E c \in Conn :
        \/ Disconnect(c)
        \/ QUIT(c)
        \/ NICK(c, {"a"})
        \/ JOIN(c, {"#x"})
        \/ PART(c, {"#x"})
        \/ KICK(c, {"#x"}, {"a", "b", "c"})
        \/ OP_DEOP(c, {"#x"}, {"a", "b"})
        \/ JOIN_PART(c, {"#x", "#y"})

SpecPair == InitChan /\ [][NextPair]_vars

\* ------------------------------------------------------------------------
\* SpecClose: a and b in #x, which a created; c3 is connected and has sent
\* USER but no NICK (the state Spec reaches by NICK, USER and JOIN #x from c1
\* and c2 and by USER from c3).  Every frame holds one line, so that no line
\* of a connection follows its QUIT: a connection sends nothing after
\* cmd_QUIT has closed its transport, and the read loop ends some time later
\* ------------------------------------------------------------------------

InitClose ==
    /\ client = [c \in Conn |->
                    IF c = "c3" THEN [NewClient EXCEPT !.user_set = TRUE]
                    ELSE [NewClient EXCEPT !.nick = InitNick[c], !.registered = TRUE,
                                           !.nick_set = TRUE, !.user_set = TRUE,
                                           !.channels = {"#x"}]]
    /\ ws = [c \in Conn |-> "open"]
    /\ task = [c \in Conn |-> "reading"]
    /\ clients = [n \in {"a", "b"} |-> IF n = "a" THEN "c1" ELSE "c2"]
    /\ channels = [k \in {"#x"} |->
                    [NewChannel("#x") EXCEPT
                        !.members = [n \in {"a", "b"} |-> clients[n]],
                        !.ops = {"a"}]]
    /\ all_clients = Conn
    /\ sent = <<>>
    /\ last = [op |-> "init", c |-> None]
    /\ steps = MaxChanSteps
    /\ quit_peers = [c \in Conn |-> NoDeparture]
    /\ quit_seen = [c \in Conn |-> [r \in Conn |-> 0]]
    /\ pending = [c \in Conn |-> Idle]

\* The peer of c still sends frames: its transport has not been closed.
Sending(c) == ws[c] = "open"

NextClose ==
    \E c \in Conn :
        \/ Disconnect(c)
        \/ Sending(c) /\ QUIT(c)
        \/ Sending(c) /\ NICK(c, {"a", "b", "d"})
        \/ Sending(c) /\ JOIN(c, {"#x", "#y"})
        \/ Sending(c) /\ PART(c, {"#x"})

SpecClose == InitClose /\ [][NextClose]_vars

\* ------------------------------------------------------------------------
\* SpecAwait: a, b and c in #x as in SpecChan; a PRIVMSG to #x may be
\* suspended in each send of its fan-out loop, and the other connections'
\* tasks run meanwhile.  The other commands leave or empty the channel, so
\* that a members dict of unchanged size is an unchanged dict
\* ------------------------------------------------------------------------

NextAwait ==
    \E c \in Conn :
        \/ Disconnect(c)
        \/ QUIT(c)
        \/ PART(c, {"#x"})
        \/ KICK(c, {"#x"}, {"b", "c"})
        \/ PRIVMSG(c, {"#x"})
        \/ PRIVMSG_SEND(c, {"#x"})
        \/ RESUME(c)

SpecAwait == InitChan /\ [][NextAwait]_vars

\* ------------------------------------------------------------------------
\* SpecCase: a, b and c in #x as in SpecChan; nicks are given in the letter
\* case of the registry and in another one
\* ------------------------------------------------------------------------

NextCase ==
    \E c \in Conn :
        \/ Disconnect(c)
        \/ PART(c, {"#x"})
        \/ NICK_ARG(c, {"A", "B", "d"})
        \/ PRIVMSG(c, {"b", "B"})
        \/ WHOIS(c, {"b", "B"})
        \/ INVITE(c, {"b", "B"}, {"#x"})
        \/ KICK_ARG(c, {"#x"}, {"b", "B"})
        \/ ISON(c, {"b", "B"})
        \/ USERHOST(c, {"b", "B"})

SpecCase == InitChan /\ [][NextCase]_vars

\* ------------------------------------------------------------------------
\* SpecOper: a, b and c in #x as in SpecChan; OPER, MODE for nicks and MODE
\* for the channel from every client
\* ------------------------------------------------------------------------

\* The mode commands of SpecOper.
OperModes ==
    {<< <<>>, <<>> >>,
     << <<"+", "o">>, <<>> >>,
     << <<"-", "o">>, <<>> >>,
     << <<"+", "i", "x">>, <<>> >>,
     << <<"+", "m">>, <<>> >>,
     << <<"+", "o">>, <<"b">> >>}

NextOper ==
    \E c \in Conn :
        \/ Disconnect(c)
        \/ OPER(c)
        \/ MODE_ANY(c, {"a", "b", "#x", None}, OperModes)

SpecOper == InitChan /\ [][NextOper]_vars

\* ------------------------------------------------------------------------
\* SpecLimit: a, b and c in #x as in SpecChan; the operator sets and clears
\* the member limit, and clients leave and come back
\* ------------------------------------------------------------------------

\* The mode commands of SpecLimit.
LimitModes ==
    {<< <<"+", "l">>, <<"0">> >>,
     << <<"+", "l">>, <<"2">> >>,
     << <<"+", "l">>, <<"3">> >>,
     << <<"+", "l">>, <<"-1">> >>,
     << <<"+", "l">>, <<"x">> >>,
     << <<"-", "l">>, <<>> >>}

NextLimit ==
    \E c \in Conn :
        \/ Disconnect(c)
        \/ JOIN_KEY(c, {"#x"}, {None})
        \/ PART(c, {"#x"})
        \/ MODE_ARGS(c, {"#x"}, LimitModes)

SpecLimit == InitChan /\ [][NextLimit]_vars

\* ------------------------------------------------------------------------
\* Properties
\* ------------------------------------------------------------------------

\* A connection whose read loop runs and whose transport is open.
Open(c) == task[c] = "reading" /\ ws[c] = "open"

\* The number of lines cmd among the lines out that were sent to r.
LinesTo(out, cmd, r) ==
    Cardinality({i \in 1..Len(out) : out[i].cmd = cmd /\ out[i].to = r})

\* C1: no two registered clients (connections that completed registration
\* and are still open) have nicks that are equal when letter case is ignored.
C1_UniqueNicks ==
    \A c, d \in Conn :
        (c # d /\ Open(c) /\ Open(d) /\ client[c].registered /\ client[d].registered)
            => Lower(client[c].nick) # Lower(client[d].nick)

\* C2: for every channel key k of the registry and every open connection c,
\* k is in c.channels exactly when c.nick is a key of channels[k].members and
\* that entry is c.
C2_ChannelsMatchMembers ==
    \A k \in DOMAIN channels : \A c \in Conn :
        Open(c) =>
            (k \in client[c].channels
                <=> /\ client[c].nick \in DOMAIN channels[k].members
                    /\ channels[k].members[client[c].nick] = c)

\* C3: the channel registry holds no channel without members.
C3_NoEmptyChannel ==
    \A k \in DOMAIN channels : DOMAIN channels[k].members # {}

\* C4: in every channel of the registry, every nick of ops and every nick of
\* voices is a key of members.
C4_RolesAreMembers ==
    \A k \in DOMAIN channels :
        channels[k].ops \cup channels[k].voices \subseteq DOMAIN channels[k].members

\* C4 witness: "b" was given voice in #x and then the operator of #x renamed
\* itself to "d", so that ops was rekeyed.
C4_Witness ==
    /\ last.op = "NICK"
    /\ "#x" \in DOMAIN channels
    /\ "d" \in channels["#x"].ops
    /\ "b" \in channels["#x"].voices

\* C5: every client of the server whose registered flag is set has both
\* latches set and is the entry of the nick registry under its nick.
C5_RegisteredInRegistry ==
    \A c \in all_clients :
        client[c].registered =>
            /\ client[c].nick_set /\ client[c].user_set
            /\ client[c].nick \in DOMAIN clients
            /\ clients[client[c].nick] = c

C7_QuitOnce ==
    \A c \in Conn :
        (task[c] = "done" /\ quit_peers[c].started) =>
            \A r \in Conn \ {c} :
                quit_seen[c][r] = IF r \in quit_peers[c].peers THEN 1 ELSE 0

\* C8: a NICK command that changes the nick of a registered client sends the
\* NICK line exactly once to the client itself and exactly once to every
\* client that shares a channel with it (open connections).
C8_NickBroadcast ==
    [][(/\ last'.op = "NICK"
        /\ Open(last'.c)
        /\ client[last'.c].registered
        /\ client'[last'.c].nick # client[last'.c].nick)
          => \A d \in {last'.c} \cup {e \in Sharing(last'.c) : Open(e)} :
                LinesTo(sent', "NICK", d) = 1]_vars

\* C9: a NICK command that changes the nick of a registered client from old
\* to new leaves new and not old in the nick registry; in every channel the
\* client had joined, new is its key in members and old is none, new is in
\* ops (voices) exactly if old was, and no other nick's role or membership
\* changes.
C9_Rename ==
    [][(/\ last'.op = "NICK"
        /\ Open(last'.c)
        /\ client[last'.c].registered
        /\ client'[last'.c].nick # client[last'.c].nick)
          => LET c   == last'.c
                 old == client[c].nick
                 new == client'[c].nick
             IN  /\ new \in DOMAIN clients'
                 /\ old \notin DOMAIN clients'
                 /\ \A k \in client[c].channels \cap DOMAIN channels :
                       /\ k \in DOMAIN channels'
                       /\ new \in DOMAIN channels'[k].members
                       /\ channels'[k].members[new] = c
                       /\ old \notin DOMAIN channels'[k].members
                       /\ new \in channels'[k].ops <=> old \in channels[k].ops
                       /\ new \in channels'[k].voices <=> old \in channels[k].voices
                       /\ \A n \in (DOMAIN channels[k].members
                                      \cup DOMAIN channels'[k].members) \ {old, new} :
                             /\ n \in DOMAIN channels'[k].members
                                   <=> n \in DOMAIN channels[k].members
                             /\ n \in channels'[k].ops <=> n \in channels[k].ops
                             /\ n \in channels'[k].voices <=> n \in channels[k].voices]_vars

\* C10: a command other than NICK, USER, CAP, PING, PONG and QUIT from a
\* client that has not completed registration sends no line and changes no
\* client, channel or registry state.
C10_IgnoredBeforeRegistration ==
    [][(/\ last'.op \in {"JOIN", "PART", "KICK", "MODE"}
        /\ ~client[last'.c].registered)
          => /\ sent' = <<>>
             /\ client' = client
             /\ clients' = clients
             /\ channels' = channels]_vars

\* The codes of the lines out that were sent to r, in order.
CodesTo(out, r) ==
    LET mine == SelectSeq(out, LAMBDA l : l.to = r)
    IN  [i \in 1..Len(mine) |-> mine[i].cmd]

\* The numerics of the registration burst.
RegNumerics ==
    {"001", "002", "003", "004", "375", "372", "376", "251", "252", "253", "254", "255"}

\* 001 002 003 004 375, n times 372, 376 251, optionally 252, optionally 253,
\* 254 255.
Burst(n, op, unk) ==
    <<"001", "002", "003", "004", "375">> \o [i \in 1..n |-> "372"]
        \o <<"376", "251">> \o (IF op THEN <<"252">> ELSE <<>>)
        \o (IF unk THEN <<"253">> ELSE <<>>) \o <<"254", "255">>

\* C11: a client is registered exactly when both its NICK and its USER have
\* been accepted; the command that completes the pair installs it in the
\* nick registry and sends it 001 002 003 004 375 372.. 376 251 [252] [253]
\* 254 255 in that order; no command sends a client that is not registered
\* after it any of these numerics.
C11_Registration ==
    [][\A c \in Conn :
         /\ client'[c].registered <=> (client'[c].nick_set /\ client'[c].user_set)
         /\ (client'[c].registered /\ ~client[c].registered) =>
               /\ last'.c = c /\ last'.op \in {"NICK", "USER"}
               /\ client'[c].nick \in DOMAIN clients'
               /\ clients'[client'[c].nick] = c
               /\ ws[c] = "open" =>
                     \E n \in 1..3, op, unk \in BOOLEAN :
                         CodesTo(sent', c) = Burst(n, op, unk)
         /\ ~client'[c].registered =>
               \A i \in 1..Len(sent') :
                   sent'[i].to = c => sent'[i].cmd \notin RegNumerics]_vars

\* The numeric of the first JOIN gate that fails for a client with this nick
\* and key, in the order limit, key, invite-only, ban; "ok" if none fails.
FirstFailingGate(ch, nick, key) ==
    IF "l" \in ch.modes /\ \E l \in ch.limit : Cardinality(DOMAIN ch.members) >= l
    THEN "471"
    ELSE IF "k" \in ch.modes /\ key # ch.key THEN "475"
    ELSE IF "i" \in ch.modes /\ nick \notin ch.invites THEN "473"
    ELSE IF \E i \in 1..Len(ch.bans) : BanMatches(ch.bans[i], nick) THEN "474"
    ELSE "ok"

\* C12: a JOIN from a registered client to an existing channel it is not in
\* sends exactly the error numeric of the first failing gate (limit 471, key
\* 475, invite-only 473, ban 474) and leaves the members and the client's
\* channels unchanged; if no gate fails the client becomes a member.
C12_JoinGates ==
    [][(/\ last'.op = "JOIN"
        /\ "arg" \in DOMAIN last'
        /\ Open(last'.c)
        /\ client[last'.c].registered
        /\ Lower(last'.arg[1]) \in DOMAIN channels
        /\ Lower(last'.arg[1]) \notin client[last'.c].channels)
          => LET c    == last'.c
                 k    == Lower(last'.arg[1])
                 nick == client[c].nick
                 gate == FirstFailingGate(channels[k], nick, last'.arg[2])
             IN  IF gate = "ok"
                 THEN /\ k \in client'[c].channels
                      /\ k \in DOMAIN channels'
                      /\ nick \in DOMAIN channels'[k].members
                      /\ channels'[k].members[nick] = c
                      /\ \A i \in 1..Len(sent') :
                            sent'[i].cmd \notin {"471", "475", "473", "474"}
                 ELSE /\ CodesTo(sent', c) = <<gate>>
                      /\ client'[c].channels = client[c].channels
                      /\ k \in DOMAIN channels'
                      /\ channels'[k].members = channels[k].members]_vars

\* C13: when a JOIN adds a client to a channel, the client is an operator
\* of the channel afterwards exactly if the channel had no members before;
\* every client in the channel whose transport is open, the joiner included,
\* is sent the JOIN line; and the joiner is sent its JOIN line, then the
\* topic reply (332 or 331), then 353, then 366.
C13_JoinOperator ==
    [][\A k \in {"#x", "#y"} :
         (/\ last'.op = "JOIN"
          /\ k \in client'[last'.c].channels
          /\ k \notin client[last'.c].channels)
            => LET c     == last'.c
                   nick  == client[c].nick
                   first == k \notin DOMAIN channels
                              \/ DOMAIN channels[k].members = {}
               IN  /\ nick \in channels'[k].ops <=> first
                   /\ \A d \in Conn :
                         (k \in client'[d].channels /\ ws[d] = "open")
                            => LinesTo(sent', "JOIN", d) = 1
                   /\ ws[c] = "open" =>
                         \E topic \in {"332", "331"} :
                             CodesTo(sent', c) = <<"JOIN", topic, "353", "366">>]_vars

\* A PRIVMSG of a registered client to an existing channel has just been
\* dispatched (primed state).
ChannelPrivmsg ==
    /\ last'.op = "PRIVMSG"
    /\ client[last'.c].registered
    /\ Lower(last'.arg[1]) \in DOMAIN channels

\* The claim's mode checks for a message of c to channel k: mode n and c
\* not in the channel, or mode m and c's nick neither in ops nor in voices.
Rejected(c, k) ==
    \/ "n" \in channels[k].modes /\ k \notin client[c].channels
    \/ /\ "m" \in channels[k].modes
       /\ client[c].nick \notin channels[k].ops \cup channels[k].voices

\* C14: a PRIVMSG to a channel that passes the mode checks is sent exactly
\* once to every client that is in the channel (has joined it and not left)
\* other than the sender, and not to the sender (open transports).
C14_PrivmsgFanOut ==
    [][(ChannelPrivmsg /\ ~Rejected(last'.c, Lower(last'.arg[1])))
          => LET c == last'.c
                 k == Lower(last'.arg[1])
             IN  /\ LinesTo(sent', "PRIVMSG", c) = 0
                 /\ \A d \in Conn \ {c} :
                       (k \in client[d].channels /\ ws[d] = "open")
                          => LinesTo(sent', "PRIVMSG", d) = 1]_vars

C16_NoticeSilent ==
    [][last'.op = "NOTICE"
          => \A i \in 1..Len(sent') :
                sent'[i].to = last'.c
                   => sent'[i].cmd \notin {"461", "403", "404", "401"}]_vars

\* The registered clients named nick that are in channel k.
Targets(k, nick) ==
    {d \in Conn : /\ client[d].registered
                  /\ client[d].nick = nick
                  /\ k \in client[d].channels}

\* C17: a KICK from a client that is in the channel and an operator of it,
\* naming a client that is in the channel, sends the KICK line to every
\* client in the channel, the target included, removes the target's nick
\* from members, ops and voices and the channel from the target's channels;
\* any other KICK sends the issuer one of 403, 442, 482, 441 and changes no
\* channel and no client.
C17_Kick ==
    [][(last'.op = "KICK" /\ "arg" \in DOMAIN last' /\ Open(last'.c))
          => LET c    == last'.c
                 k    == Lower(last'.arg[1])
                 nick == last'.arg[2]
             IN  IF /\ k \in DOMAIN channels
                    /\ k \in client[c].channels
                    /\ client[c].nick \in channels[k].ops
                    /\ Targets(k, nick) # {}
                 THEN /\ \A d \in Conn :
                            (k \in client[d].channels /\ ws[d] = "open")
                               => LinesTo(sent', "KICK", d) = 1
                      /\ \A d \in Targets(k, nick) : k \notin client'[d].channels
                      /\ k \in DOMAIN channels' =>
                            /\ nick \notin DOMAIN channels'[k].members
                            /\ nick \notin channels'[k].ops
                            /\ nick \notin channels'[k].voices
                 ELSE /\ \E code \in {"403", "442", "482", "441"} :
                            CodesTo(sent', c) = <<code>>
                      /\ Len(sent') = 1
                      /\ channels' = channels
                      /\ client' = client]_vars

\* C18: a channel MODE command with a mode string from a client whose nick
\* is not in the channel's ops and that does not hold user mode o leaves the
\* channel unchanged (modes, key, limit, ops, voices, bans), and the only
\* line it sends is 482 to the issuer.
C18_ModeNeedsOperator ==
    [][(/\ last'.op = "MODE"
        /\ "arg" \in DOMAIN last'
        /\ Open(last'.c)
        /\ last'.arg[2] # <<>>
        /\ Lower(last'.arg[1]) \in DOMAIN channels
        /\ client[last'.c].nick \notin channels[Lower(last'.arg[1])].ops
        /\ "o" \notin client[last'.c].modes)
          => LET c == last'.c
                 k == Lower(last'.arg[1])
             IN  /\ k \in DOMAIN channels'
                 /\ channels'[k] = channels[k]
                 /\ CodesTo(sent', c) = <<"482">>
                 /\ Len(sent') = 1]_vars

\* C18 witness: a client in #x that is no operator has asked for a mode
\* change of #x, which already has modes set, and was sent 482.
C18_Witness ==
    /\ last.op = "MODE"
    /\ "arg" \in DOMAIN last
    /\ last.arg[2] # <<>>
    /\ "#x" \in DOMAIN channels
    /\ "#x" \in client[last.c].channels
    /\ client[last.c].nick \notin channels["#x"].ops
    /\ channels["#x"].modes # {}
    /\ CodesTo(sent, last.c) = <<"482">>

\* A frame MODE +o X, MODE -o X from a client whose nick is in the ops of the
\* channel has just been dispatched (primed state).
OperatorOpDeop ==
    /\ last'.op = "MODE+o-o"
    /\ Lower(last'.arg[1]) \in DOMAIN channels
    /\ client[last'.c].nick \in channels[Lower(last'.arg[1])].ops

\* C19 as stated: MODE +o X followed by MODE -o X from an operator leaves
\* the ops set of the channel equal to what it was before the two commands.
C19_OpDeopRoundTrip ==
    [][OperatorOpDeop
          => /\ Lower(last'.arg[1]) \in DOMAIN channels'
             /\ channels'[Lower(last'.arg[1])].ops
                   = channels[Lower(last'.arg[1])].ops]_vars

\* C19 amended: MODE +o X followed by MODE -o X from an operator leaves the
\* ops set equal to what it was before without X (so it is unchanged exactly
\* when X was no operator before), and leaves members and voices unchanged.
C19_OpDeopRemoves ==
    [][OperatorOpDeop
          => LET k == Lower(last'.arg[1])
             IN  /\ k \in DOMAIN channels'
                 /\ channels'[k].ops = channels[k].ops \ {last'.arg[2]}
                 /\ channels'[k].members = channels[k].members
                 /\ channels'[k].voices = channels[k].voices]_vars

\* C19 witness: an operator has sent the two commands for a member X; both
\* MODE lines went out and X is no operator.
C19_Witness ==
    /\ last.op = "MODE+o-o"
    /\ "#x" \in DOMAIN channels
    /\ last.arg[2] \in DOMAIN channels["#x"].members
    /\ last.arg[2] \notin channels["#x"].ops
    /\ \E i, j \in 1..Len(sent) :
          /\ i < j
          /\ sent[i].cmd = "MODE" /\ sent[i].args = <<"#x", "+", "o", last.arg[2]>>
          /\ sent[j].cmd = "MODE" /\ sent[j].args = <<"#x", "-", "o", last.arg[2]>>

\* C20: JOIN then PART, from a registered client, of a channel it is not in
\* and that has no members (or does not exist) leaves the channel registry,
\* the nick registry and the client's channels as they were before the JOIN.
C20_JoinPartRoundTrip ==
    [][(/\ last'.op = "JOIN+PART"
        /\ client[last'.c].registered
        /\ Lower(last'.arg[1]) \notin client[last'.c].channels
        /\ \/ Lower(last'.arg[1]) \notin DOMAIN channels
           \/ DOMAIN channels[Lower(last'.arg[1])].members = {})
          => /\ channels' = channels
             /\ clients' = clients
             /\ client'[last'.c].channels = client[last'.c].channels]_vars

\* C21: when the teardown of a connection runs cleanup after the QUIT
\* handler of that connection has already run it (no line of the connection
\* was dispatched in between, other clients' commands were), the second run
\* sends no line and leaves the nick registry and the channel registry, with
\* every channel's members, unchanged.
C21_CleanupIdempotent ==
    [][(/\ last'.op = "disconnect"
        /\ task[last'.c] = "reading"
        /\ ws[last'.c] = "closed")
          => /\ sent' = <<>>
             /\ clients' = clients
             /\ channels' = channels]_vars

\* C22: while the handler of one connection is between its start and its
\* return (suspended in a send of its fan-out loop), no command handler of
\* another connection changes the nick registry, the channel registry or
\* the members of a channel.
C22_HandlersAtomic ==
    [][\A c \in Conn :
         (/\ task[c] = "sending"
          /\ last'.c # c
          /\ last'.op \notin {"connect", "disconnect", "resume"})
            => /\ clients' = clients
               /\ channels' = channels]_vars

\* C23: a NICK command of a registered client whose parameter differs from
\* its nick in letter case only sends no 433; afterwards the client has the
\* new spelling, the nick registry holds it under the new spelling and not
\* under the old one, every channel it is in holds it under the new spelling
\* (in members, and in ops and voices if it was there), and the client is
\* sent the NICK line.
C23_CaseRename ==
    [][(/\ last'.op = "NICK"
        /\ "arg" \in DOMAIN last'
        /\ Open(last'.c)
        /\ client[last'.c].registered
        /\ last'.arg[1] # client[last'.c].nick
        /\ Lower(last'.arg[1]) = Lower(client[last'.c].nick))
          => LET c   == last'.c
                 old == client[c].nick
                 new == last'.arg[1]
             IN  /\ \A i \in 1..Len(sent') : sent'[i].cmd # "433"
                 /\ client'[c].nick = new
                 /\ new \in DOMAIN clients' /\ clients'[new] = c
                 /\ old \notin DOMAIN clients'
                 /\ \A k \in client[c].channels \cap DOMAIN channels :
                       /\ k \in DOMAIN channels'
                       /\ new \in DOMAIN channels'[k].members
                       /\ old \notin DOMAIN channels'[k].members
                       /\ new \in channels'[k].ops <=> old \in channels[k].ops
                       /\ new \in channels'[k].voices <=> old \in channels[k].voices
                 /\ LinesTo(sent', "NICK", c) = 1]_vars

\* The open connections registered under a nick that equals nick when letter
\* case is ignored but is spelled differently, nick itself being no key of
\* the nick registry.
OtherCase(nick) ==
    {d \in Conn : /\ Open(d)
                  /\ client[d].registered
                  /\ client[d].nick \in DOMAIN clients
                  /\ clients[client[d].nick] = d
                  /\ client[d].nick # nick
                  /\ Lower(client[d].nick) = Lower(nick)
                  /\ nick \notin DOMAIN clients}

\* C24: a command of a registered client that names the nick of a registered
\* client in another letter case finds that client: PRIVMSG, WHOIS and
\* INVITE send no 401, and PRIVMSG sends the client the message; KICK from an
\* operator of a channel the client is in sends no 441; the replies of ISON
\* and USERHOST list the client.
C24_CaseLookup ==
    [][(/\ last'.op \in {"PRIVMSG", "WHOIS", "INVITE", "KICK", "ISON", "USERHOST"}
        /\ "arg" \in DOMAIN last'
        /\ Open(last'.c)
        /\ client[last'.c].registered)
          => LET c    == last'.c
                 op   == last'.op
                 nick == IF op = "KICK" THEN last'.arg[2] ELSE last'.arg[1]
                 k    == IF op = "KICK" THEN Lower(last'.arg[1]) ELSE None
             IN  \A d \in OtherCase(nick) :
                    /\ op \in {"PRIVMSG", "WHOIS", "INVITE"}
                          => \A i \in 1..Len(sent') : sent'[i].cmd # "401"
                    /\ (op = "PRIVMSG" /\ d # c) => LinesTo(sent', "PRIVMSG", d) = 1
                    /\ (/\ op = "KICK"
                        /\ k \in DOMAIN channels
                        /\ k \in client[c].channels
                        /\ client[c].nick \in channels[k].ops
                        /\ k \in client[d].channels)
                          => \A i \in 1..Len(sent') : sent'[i].cmd # "441"
                    /\ op \in {"ISON", "USERHOST"}
                          => \E i \in 1..Len(sent') :
                                /\ sent'[i].cmd \in {"303", "302"}
                                /\ sent'[i].args[1] # {}]_vars

\* C25: no command gives a client user mode o: OPER sends its issuer 481 and
\* changes nothing; after any command, every client that holds user mode o
\* held it before; and a channel MODE command with a mode string from a
\* client whose nick is not in the channel's ops leaves the channel
\* unchanged.
C25_NoUserModeO ==
    [][/\ last'.op = "OPER" =>
            /\ ws[last'.c] = "open" => CodesTo(sent', last'.c) = <<"481">>
            /\ client' = client /\ clients' = clients /\ channels' = channels
       /\ \A c \in Conn : "o" \in client'[c].modes => "o" \in client[c].modes
       /\ (/\ last'.op = "MODE"
           /\ "arg" \in DOMAIN last'
           /\ last'.arg[2] # <<>>
           /\ Lower(last'.arg[1]) \in DOMAIN channels
           /\ client[last'.c].nick \notin channels[Lower(last'.arg[1])].ops)
             => /\ Lower(last'.arg[1]) \in DOMAIN channels'
                /\ channels'[Lower(last'.arg[1])] = channels[Lower(last'.arg[1])]]_vars

\* C26: a JOIN from a registered client to a channel it is not in, which has
\* mode l and the limit L, sends 471 and leaves the members unchanged if the
\* channel has L members or more; otherwise the channel has at most L members
\* after it.
C26_JoinLimit ==
    [][(/\ last'.op = "JOIN"
        /\ "arg" \in DOMAIN last'
        /\ Open(last'.c)
        /\ client[last'.c].registered
        /\ Lower(last'.arg[1]) \in DOMAIN channels
        /\ Lower(last'.arg[1]) \notin client[last'.c].channels
        /\ "l" \in channels[Lower(last'.arg[1])].modes)
          => LET c == last'.c
                 k == Lower(last'.arg[1])
                 n == Cardinality(DOMAIN channels[k].members)
             IN  \A L \in channels[k].limit :
                    IF n >= L
                    THEN /\ CodesTo(sent', c) = <<"471">>
                         /\ k \in DOMAIN channels'
                         /\ channels'[k].members = channels[k].members
                         /\ k \notin client'[c].channels
                    ELSE /\ k \in DOMAIN channels'
                         /\ Cardinality(DOMAIN channels'[k].members) <= L]_vars

\* C27: the teardown of a connection that never completed registration sends
\* no line and leaves the nick registry, the channel registry and the state
\* of every registered client unchanged.
C27_UnregisteredDisconnect ==
    [][(/\ last'.op = "disconnect"
        /\ ~client[last'.c].registered)
          => /\ sent' = <<>>
             /\ clients' = clients
             /\ channels' = channels
             /\ \A d \in Conn \ {last'.c} :
                   client[d].registered => client'[d] = client[d]]_vars

\* C28: once the QUIT handler of a connection has returned (its transport is
\* closed), no step puts the connection into the nick registry or into the
\* members of a channel, and no step sends another client a line that
\* originates from it.
C28_NothingAfterQuit ==
    [][\A c \in Conn :
         ws[c] = "closed"
            => /\ c \notin Values(clients')
               /\ \A k \in DOMAIN channels' : c \notin Values(channels'[k].members)
               /\ \A i \in 1..Len(sent') :
                     sent'[i].origin.conn = c => sent'[i].to = c]_vars

====
